---------------------------- MODULE Spec2Model ----------------------------
(***************************************************************************)
(* The "azure" router of wbreza/azd-azure-mcp: discovery of the child     *)
(* tool providers, the tool-client cache and the learn / invoke handler.  *)
(*                                                                         *)
(* The repository holds several realisations of the router; the variable  *)
(* impl says which one runs:                                               *)
(*   "v1"  Go, extensions only        (src/unnamed/part_004)               *)
(*   "v2"  Go, always-proxy           (mcp.azure/internal/cmd/server.go,   *)
(*         second file in it, with internal/metadata)                      *)
(*   "csA" C#, AzureTool              (mcp.azure.csharp/Tools/AzureTool.cs)*)
(*   "csB" C#, AzureTool with caches  (src/unnamed/part_002)               *)
(*   "flat" Go, flattening: the handlers register the providers and       *)
(*         their capabilities as tools of the server itself               *)
(*         (mcp.azure/internal/cmd/server.go, first file in it)           *)
(*                                                                         *)
(* Dotted names ("mcp.storage") are sequences of their segments            *)
(* (<<"mcp", "storage">>); the empty string is <<>>.  A version string is  *)
(* an integer: 0 the empty string, -1 a string that is no semantic         *)
(* version, n >= 1 a semantic version whose precedence is n.               *)
(***************************************************************************)
EXTENDS Integers, Sequences, FiniteSets, TLC

VARIABLES
    impl,        \* which realisation of the router runs
    sampling,    \* the peer declared the sampling capability
    azdOut,      \* what "azd ext list" answers: [ok, exts]
    manifest,    \* the bundled mcp.json: [state, servers]
    phase,       \* "boot", "serving" or "failed" (start-up returned an error)
    childTools,  \* Go: the Root-Learn listing built at start-up (names)
    providers,   \* the catalog the handler resolves names in: [key, desc]s
    initialized, \* C#: McpClientProviderLoader._initialized
    cache,       \* toolClientCache / _clientCache: name -> client, 0 = none
    clients,     \* every client constructed so far: sequence of [key, alive]
    effects,     \* per name: how often each establishment step has run
    memo,        \* csB: _cachedRootToolsJson and _cachedToolListsJson
    hs,          \* the request handlers in flight: per slot a record
    nreq,        \* requests received so far
    tools,       \* the operations the server advertises (tool names)
    provCaps     \* the capability list the provider process has now

vars == <<impl, sampling, azdOut, manifest, phase, childTools, providers,
          initialized, cache, clients, effects, memo, hs, nreq, tools,
          provCaps>>

--------------------------------------------------------------------------
(* Bounds *)

MaxRequests == 2

NumHandlers == 2

MaxSamples == 2

MaxFlatCalls == 3

--------------------------------------------------------------------------
(* Names *)

SelfId == <<"mcp", "azure">>

StorageId == <<"mcp", "storage">>

EmptyStr == <<>>

\* strings.TrimPrefix(id, "mcp.")
TrimPrefix(id) ==
    IF Len(id) >= 2 /\ id[1] = "mcp" THEN Tail(id) ELSE id

\* "mcp." + toolName
WithPrefix(name) == <<"mcp">> \o name

Names ==
    { <<"storage">>, <<"mcp", "storage">>, <<"azure">>, <<"mcp", "azure">>,
      <<"search">> }

GoImpls == {"v1", "v2"}

CsImpls == {"csA", "csB"}

Impls == GoImpls \cup CsImpls

--------------------------------------------------------------------------
(* What the extension manager and the bundled manifest can hold *)

Ext(id, installed, version, latest, ns) ==
    [id |-> id, installed |-> installed, version |-> version,
     latest |-> latest, ns |-> ns]

\* the records "azd ext list" can give for mcp.storage
StorageExts ==
    { Ext(StorageId, FALSE, 0, 2, StorageId),      \* not installed
      Ext(StorageId, TRUE, 1, 2, StorageId),       \* installed, outdated
      Ext(StorageId, TRUE, 2, 2, StorageId),       \* installed, current
      Ext(StorageId, TRUE, 2, 1, StorageId),       \* newer than latest
      Ext(StorageId, TRUE, -1, 2, StorageId),      \* unparseable version
      Ext(StorageId, TRUE, 2, 2, <<"storage">>) }  \* one-part namespace

SelfExt == Ext(SelfId, TRUE, 1, 1, SelfId)

NotInstalled == Ext(StorageId, FALSE, 0, 2, StorageId)

Current == Ext(StorageId, TRUE, 2, 2, StorageId)

AzdOuts ==
    { [ok |-> FALSE, exts |-> <<>>], [ok |-> TRUE, exts |-> <<>>],
      [ok |-> TRUE, exts |-> <<SelfExt, NotInstalled>>] }
    \cup { [ok |-> TRUE, exts |-> <<e>>] : e \in StorageExts }

Server(name, url) == [name |-> name, url |-> url]

Manifests ==
    { [state |-> "absent", servers |-> <<>>],
      [state |-> "malformed", servers |-> <<>>],
      [state |-> "ok", servers |-> <<>>],
      [state |-> "ok", servers |-> <<Server(<<"storage">>, "https://s")>>],
      [state |-> "ok", servers |-> <<Server(<<"search">>, "https://q")>>],
      [state |-> "ok", servers |-> <<Server(<<"search">>, "")>>] }

NoManifest == [state |-> "absent", servers |-> <<>>]

\* the pairs of extension-manager output and manifest a run starts from:
\* every output without a manifest, every manifest beside an installed,
\* current mcp.storage
Scenarios ==
    { <<a, NoManifest>> : a \in AzdOuts }
    \cup { <<[ok |-> TRUE, exts |-> <<Current>>], mf>> : mf \in Manifests }

--------------------------------------------------------------------------
(* Discovery: the catalog *)

\* a provider descriptor: an azd extension, or a server of the manifest
AzdDesc(e) ==
    [kind |-> "azd", id |-> e.id, installed |-> e.installed,
     version |-> e.version, latest |-> e.latest, ns |-> e.ns, url |-> ""]

RemoteDesc(sv) ==
    [kind |-> "remote", id |-> sv.name, installed |-> TRUE, version |-> 0,
     latest |-> 0, ns |-> <<>>, url |-> sv.url]

Entry(key, desc) == [key |-> key, desc |-> desc]

RECURSIVE FilterSeq(_, _)
\* the elements of s that are not in the set drop, in order
FilterSeq(s, drop) ==
    IF s = <<>> THEN <<>>
    ELSE IF Head(s).id \in drop THEN FilterSeq(Tail(s), drop)
    ELSE <<Head(s)>> \o FilterSeq(Tail(s), drop)

\* map[key] = desc on a map kept in insertion order
Put(m, key, desc) ==
    IF \E i \in 1..Len(m) : m[i].key = key
    THEN [i \in 1..Len(m) |->
            IF m[i].key = key THEN Entry(key, desc) ELSE m[i]]
    ELSE Append(m, Entry(key, desc))

RECURSIVE PutAll(_, _)
PutAll(m, es) ==
    IF es = <<>> THEN m
    ELSE PutAll(Put(m, Head(es).key, Head(es).desc), Tail(es))

\* LoadAzdToolMetadata: the extensions but "mcp.azure"
LoadAzdToolMetadata(out) == FilterSeq(out.exts, {SelfId})

\* a loader that falls back to a built-in server when mcp.json has none
LoadExternalToolMetadataOrDefault(mf) ==
    IF mf.servers = <<>> THEN <<Server(<<"search">>, "https://q")>>
    ELSE mf.servers

\* LoadExternalToolMetadata: the servers of mcp.json
LoadExternalToolMetadata(mf) == mf.servers

\* Metadata().Name of an azd tool and of an external tool
AzdToolName(e) == TrimPrefix(e.id)

\* v2: allTools as [key, desc] in the order azd tools, external tools
AllTools(out, mf) ==
    LET azd == LoadAzdToolMetadata(out)
        ext == LoadExternalToolMetadata(mf)
    IN  [i \in 1..Len(azd) |-> Entry(AzdToolName(azd[i]), AzdDesc(azd[i]))]
        \o [i \in 1..Len(ext) |-> Entry(ext[i].name, RemoteDesc(ext[i]))]

\* v1 loadMcpChildToolsMetadata: childTools skips self, toolName is
\* ext.ID[len("mcp."):], the id without its first segment
ChildToolsV1(out) ==
    LET kept == FilterSeq(out.exts, {SelfId})
    IN  [i \in 1..Len(kept) |-> Tail(kept[i].id)]

\* v1 loadMcpChildToolsMetadata: extList is the whole parsed list
ExtListV1(out) ==
    [i \in 1..Len(out.exts) |-> Entry(out.exts[i].id, AzdDesc(out.exts[i]))]

\* C# AzdExtensionLoader: ids the loader ignores
IgnoreToolIds == {SelfId, <<"mcp", "azure", "csharp">>, <<"mcp", "azure", "ts">>}

\* C# ListAzdExtensionsAsync: an empty list when the query fails
ListAzdExtensionsAsync(out) ==
    IF out.ok THEN FilterSeq(out.exts, IgnoreToolIds) ELSE <<>>

\* C# LoadRemoteMcpServersAsync: an empty list when absent or malformed
LoadRemoteMcpServersAsync(mf) ==
    IF mf.state = "ok" THEN mf.servers ELSE <<>>

\* C# EnsureInitializedAsync: _providerMap, azd providers then remote ones
ProviderMapCs(out, mf) ==
    LET azd == ListAzdExtensionsAsync(out)
        rem == LoadRemoteMcpServersAsync(mf)
    IN  PutAll(PutAll(<<>>,
                 [i \in 1..Len(azd) |-> Entry(azd[i].id, AzdDesc(azd[i]))]),
               [i \in 1..Len(rem) |-> Entry(rem[i].name, RemoteDesc(rem[i]))])

\* the names of a catalog, in order
KeysOf(m) == [i \in 1..Len(m) |-> m[i].key]

--------------------------------------------------------------------------
(* Requests and responses *)

\* an optional string argument: absent, or present with a value
Arg(has, val) == [has |-> has, val |-> val]

NoArg == Arg(FALSE, <<>>)

ToolArgs ==
    {NoArg, Arg(TRUE, EmptyStr)}
    \cup {Arg(TRUE, n) : n \in Names \ {SelfId}}

CommandArgs == {NoArg, Arg(TRUE, <<"list">>)}

\* "parameters": absent, or an object given as its set of key/value pairs
ParamArgs == {Arg(FALSE, {}), Arg(TRUE, {<<"account", "a1">>})}

Intents == {"", "deploy my app"}

\* the arguments of one call of the "azure" tool; learn = FALSE also
\* stands for an absent "learn"
Requests ==
    { r \in [learn : BOOLEAN, tool : ToolArgs, command : CommandArgs,
             params : ParamArgs, intent : Intents] :
        r.params.has => (r.command = Arg(TRUE, <<"list">>)) }

NoReq ==
    [learn |-> FALSE, tool |-> NoArg, command |-> NoArg,
     params |-> Arg(FALSE, {}), intent |-> ""]

\* a response: err is a raised (hard) error, kind says which text or
\* result it is, tool / command / cause are what the text names, list is
\* the listing it shows and result the provider's result it passes on
Resp(err, kind, tool, command, cause, list, result) ==
    [err |-> err, kind |-> kind, tool |-> tool, command |-> command,
     cause |-> cause, list |-> list, result |-> result]

NoResp == Resp(FALSE, "", <<>>, <<>>, <<>>, <<>>, <<>>)

Guidance == Resp(FALSE, "guidance", <<>>, <<>>, <<>>, <<>>, <<>>)

NotFound(tool) == Resp(FALSE, "notFound", tool, <<>>, <<>>, <<>>, <<>>)

RootList(names) == Resp(FALSE, "rootList", <<>>, <<>>, <<>>, names, <<>>)

ToolList(tool, caps) == Resp(FALSE, "toolList", tool, <<>>, <<>>, caps, <<>>)

\* Go "Failed to start tool client: %v": the text is the cause alone
ClientFailGo(cause) == Resp(FALSE, "clientFail", <<>>, <<>>, cause, <<>>, <<>>)

\* C# "There was an error connecting to the tool. Failed to get tool: ..."
ClientFailCs(tool, cause) ==
    Resp(FALSE, "clientFail", tool, <<>>, cause, <<>>, <<>>)

CallFail(tool, command, cause) ==
    Resp(FALSE, "callFail", tool, command, cause, <<>>, <<>>)

PassThrough(result) == Resp(FALSE, "result", <<>>, <<>>, <<>>, <<>>, result)

Raised(cause) == Resp(TRUE, "error", <<>>, <<>>, cause, <<>>, <<>>)

\* the cause of a failed step: the step and the name its message holds
Cause(step, name) == <<<<step>>, name>>

--------------------------------------------------------------------------
(* The provider behind a client *)

\* the capabilities a provider lists
Capabilities == << <<"list">> >>

\* the capability list after an update of the provider
MoreCapabilities == << <<"list">>, <<"create">> >>

\* what the provider answers to an invocation it accepts
ProviderResult(key, command, params) ==
    << <<"result">>, key, command, params >>

\* the provider knows the command
KnowsCommand(command) ==
    \E i \in 1..Len(provCaps) : provCaps[i] = command

--------------------------------------------------------------------------
(* The state of one request handler *)

\* pc: "idle", then where the handler waits for a call it has issued:
\*   "ensure"  azd ext install / upgrade      "spawn"  start or connect
\*   "init"    the initialize handshake       "list"   ListTools
\*   "call"    CallTool                       "sampleTool", "sampleCmd"
\* and "done" with the response in resp.
\* mode is what follows the client: "learn" (list) or "invoke" (call);
\* tool / command / params are the arguments of the mode being run;
\* class is the mode the request was classified as; key is the cache
\* key; step the extension-manager step being run ("install", "upgrade");
\* got how the client lookup ended ("hit" in the cache, "made", "failed");
\* ran the establishment steps this request has run, in order; client
\* the toolClient obtained; calls the invocations sent; samples the
\* sampling round-trips made; asked the prompt of the last round-trip
\* ("tool" or "command") and answer what the peer answered to it
IdleH ==
    [pc |-> "idle", req |-> NoReq, class |-> "", mode |-> "", tool |-> <<>>,
     command |-> <<>>, params |-> Arg(FALSE, {}), key |-> <<>>,
     step |-> "", got |-> "", ran |-> <<>>, client |-> 0, resp |-> NoResp,
     calls |-> <<>>, samples |-> 0, asked |-> "", answer |-> <<>>]

Done(h, resp) == [h EXCEPT !.pc = "done", !.resp = resp]

Handlers == 1..NumHandlers

--------------------------------------------------------------------------
(* Resolving a name and creating its client *)

\* the index in the catalog m that the tool name resolves to, 0 if none:
\* v1 findExtensionByToolName (first ext whose ID is "mcp." + toolName),
\* else the map lookup toolMetadataMap[toolName] / _providerMap[name]
Lookup(m, tool) ==
    LET want == IF impl = "v1" THEN WithPrefix(tool) ELSE tool
        hits == {i \in 1..Len(m) : m[i].key = want}
    IN  IF hits = {} THEN 0
        ELSE CHOOSE i \in hits : \A j \in hits : i <= j

\* the descriptor a cache key stands for
DescOf(m, key) ==
    LET hits == {i \in 1..Len(m) : m[i].key = key}
    IN  m[CHOOSE i \in hits : \A j \in hits : i <= j].desc

\* semver.NewVersion / SemVersion.Parse accepts the version string
SemverOk(v) == v >= 1

\* which extension-manager step CreateClient runs first for an azd
\* extension: "install", "upgrade", "none", or "throw" (C# Parse throws)
EnsureStepGo(d) ==
    IF d.installed
    THEN IF d.latest # d.version /\ SemverOk(d.version) /\ SemverOk(d.latest)
            /\ d.latest > d.version
         THEN "upgrade" ELSE "none"
    ELSE "install"

\* v1 getOrStartMcpClient installs and never upgrades
EnsureStepV1(d) == IF ~d.installed THEN "install" ELSE "none"

\* C# EnsureExtensionIsInstalledAndUpToDateAsync
EnsureStepCs(d) ==
    IF ~d.installed THEN "install"
    ELSE IF d.version # 0 /\ d.latest # 0
    THEN IF ~SemverOk(d.version) \/ ~SemverOk(d.latest) THEN "throw"
         ELSE IF d.version < d.latest THEN "upgrade" ELSE "none"
    ELSE "none"

EnsureStep(d) ==
    IF d.kind = "remote" THEN "none"
    ELSE IF impl = "v1" THEN EnsureStepV1(d)
    ELSE IF impl \in {"v2", "flat"} THEN EnsureStepGo(d)
    ELSE EnsureStepCs(d)

\* what stops CreateClient between the extension-manager step and the
\* start of the process or connection, <<>> if nothing does:
\* Go: a namespace of fewer than two parts, a manifest entry without url;
\* C#: new Uri(Url) throws on an empty url
PreSpawnFailure(d) ==
    IF d.kind = "azd"
    THEN IF impl \notin CsImpls /\ Len(d.ns) < 2
         THEN Cause("namespace", d.ns) ELSE <<>>
    ELSE IF d.url = "" THEN Cause("url", d.id) ELSE <<>>

\* how a failed client creation ends the request: Go answers with the
\* text "Failed to start tool client"; C# CommandModeAsync catches it,
\* C# ToolLearnModeAsync lets the exception escape; the flattening
\* handler returns the error
ClientFailure(h, cause) ==
    LET h1 == [h EXCEPT !.got = "failed"]
    IN  IF impl = "flat" THEN Done(h1, Raised(cause))
        ELSE IF impl \in GoImpls THEN Done(h1, ClientFailGo(cause))
        ELSE IF h.mode = "invoke" THEN Done(h1, ClientFailCs(h.tool, cause))
        ELSE Done(h1, Raised(cause))

\* a creation that goes to the handshake without starting the process
AfterEnsureNoSpawn(h, d) == [h EXCEPT !.pc = "init"]

\* CreateClient after the extension-manager step
AfterEnsure(h, d) ==
    IF PreSpawnFailure(d) # <<>> THEN ClientFailure(h, PreSpawnFailure(d))
    ELSE [h EXCEPT !.pc = "spawn"]

\* CreateClient up to the first call it waits for
BeginCreate(h, d) ==
    IF EnsureStep(d) = "throw" THEN ClientFailure(h, Cause("version", d.id))
    ELSE IF EnsureStep(d) \in {"install", "upgrade"}
    THEN [h EXCEPT !.pc = "ensure", !.step = EnsureStep(d)]
    ELSE AfterEnsure(h, d)

\* the call a handler makes once it holds the client
UseClient(h, c) ==
    [h EXCEPT !.client = c, !.pc = IF h.mode = "learn" THEN "list" ELSE "call"]

--------------------------------------------------------------------------
(* The Go handler (v1 and v2) *)

\* a handler without the Provider-Learn branch
ClassifyGoNoProviderLearn(r) ==
    IF r.learn THEN "root"
    ELSE IF ~r.tool.has \/ ~r.command.has THEN "guidance" ELSE "invoke"

\* the branch of the handler a request takes
ClassifyGo(r) ==
    IF r.learn
    THEN IF r.tool.has /\ r.tool.val # EmptyStr THEN "learn" ELSE "root"
    ELSE IF ~r.tool.has \/ ~r.command.has THEN "guidance" ELSE "invoke"

\* a lookup that creates a client whatever the cache holds
GetClientGoAnew(h, m, c) ==
    IF Lookup(m, h.tool) = 0 THEN Done(h, NotFound(h.tool))
    ELSE BeginCreate([h EXCEPT !.key = m[Lookup(m, h.tool)].key],
                     m[Lookup(m, h.tool)].desc)

\* the name lookup and the cache lookup of the learn and invoke branches
GetClientGo(h, m, c) ==
    IF Lookup(m, h.tool) = 0 THEN Done(h, NotFound(h.tool))
    ELSE LET e  == m[Lookup(m, h.tool)]
             h1 == [h EXCEPT !.key = e.key]
         IN  IF c[e.key] # 0 THEN UseClient([h1 EXCEPT !.got = "hit"], c[e.key])
             ELSE BeginCreate(h1, e.desc)

\* the handler from the request to the first call it waits for
HandleGo(h, r, m, c, listing) ==
    LET cl == ClassifyGo(r)
        h1 == [h EXCEPT !.req = r, !.class = cl, !.mode = cl,
                        !.tool = r.tool.val, !.command = r.command.val,
                        !.params = r.params]
    IN  CASE cl = "root" -> Done(h1, RootList(listing))
          [] cl = "guidance" -> Done(h1, Guidance)
          [] OTHER -> GetClientGo(h1, m, c)

--------------------------------------------------------------------------
(* The C# handler (csA and csB) *)

\* string.IsNullOrEmpty of an optional argument
IsNullOrEmpty(a) == ~a.has \/ a.val = EmptyStr

\* string.IsNullOrWhiteSpace of the intent
IsNullOrWhiteSpace(intent) == intent \in {"", " "}

\* a classification that takes a provider name alone for Provider-Learn
ClassifyCsNameAlone(r) ==
    LET noTool == IsNullOrEmpty(r.tool)
        noCmd  == IsNullOrEmpty(r.command)
    IN  IF noTool /\ noCmd THEN (IF r.learn \/ r.intent # "" THEN "root" ELSE "guidance")
        ELSE IF ~noTool /\ noCmd THEN "learn"
        ELSE IF ~r.learn /\ ~noTool /\ ~noCmd THEN "invoke"
        ELSE "guidance"

\* InvokeAsync: the mode of a request, after the promotion of a request
\* that carries only an intent
ClassifyCs(r) ==
    LET noTool == IsNullOrEmpty(r.tool)
        noCmd  == IsNullOrEmpty(r.command)
        learn  == r.learn \/ (r.intent # "" /\ noTool /\ noCmd)
    IN  IF learn /\ noTool /\ noCmd THEN "root"
        ELSE IF learn /\ ~noTool /\ noCmd THEN "learn"
        ELSE IF ~learn /\ ~noTool /\ ~noCmd THEN "invoke"
        ELSE "guidance"

\* GetParametersDictionary: the object, or an empty dictionary
GetParametersDictionary(p) == Arg(TRUE, p.val)

\* the test before a sampling round-trip: csA SupportsSampling alone,
\* csB also a non-blank intent
AttemptsSampling(h) ==
    sampling /\ (impl = "csB" => ~IsNullOrWhiteSpace(h.req.intent))

\* GetRootToolsJsonAsync: the listing, csB from its cache once filled
RootToolsCs(m, mem) ==
    IF impl = "csB" /\ mem.root.has THEN mem.root.val ELSE KeysOf(m)

\* RootLearnModeAsync up to the sampling round-trip
RootLearnCs(h, m, mem) ==
    IF AttemptsSampling(h)
    THEN [h EXCEPT !.pc = "sampleTool", !.resp = RootList(RootToolsCs(m, mem))]
    ELSE Done(h, RootList(RootToolsCs(m, mem)))

\* GetProviderClientAsync and what its callers do with a null client
GetClientCs(h, m, c, mem) ==
    IF h.tool \in DOMAIN c /\ c[h.tool] # 0
    THEN UseClient([h EXCEPT !.key = h.tool, !.got = "hit"], c[h.tool])
    ELSE IF Lookup(m, h.tool) # 0
    THEN BeginCreate([h EXCEPT !.key = h.tool], m[Lookup(m, h.tool)].desc)
    ELSE RootLearnCs(h, m, mem)

\* ToolLearnModeAsync after the capability list is known
AfterListCs(h, caps) ==
    IF AttemptsSampling(h)
    THEN [h EXCEPT !.pc = "sampleCmd", !.resp = ToolList(h.tool, caps)]
    ELSE Done(h, ToolList(h.tool, caps))

\* ToolLearnModeAsync up to the first call it waits for; csB answers
\* from _cachedToolListsJson when it holds the tool
ToolLearnCs(h, m, c, mem) ==
    IF impl = "csB" /\ h.tool \in DOMAIN mem.lists /\ mem.lists[h.tool].has
    THEN AfterListCs(h, mem.lists[h.tool].val)
    ELSE GetClientCs(h, m, c, mem)

\* InvokeAsync from the request to the first call it waits for
HandleCs(h, r, m, c, mem) ==
    LET cl == ClassifyCs(r)
        h1 == [h EXCEPT !.req = r, !.class = cl, !.mode = cl,
                        !.tool = r.tool.val, !.command = r.command.val,
                        !.params = GetParametersDictionary(r.params)]
    IN  CASE cl = "root" -> RootLearnCs(h1, m, mem)
          [] cl = "learn" -> ToolLearnCs(h1, m, c, mem)
          [] cl = "invoke" -> GetClientCs(h1, m, c, mem)
          [] OTHER -> Done(h1, Guidance)

\* csB: GetRootToolsJsonAsync has filled _cachedRootToolsJson when the
\* handler went through RootLearnModeAsync
MemoRoot(mem, h, m) ==
    IF impl = "csB" /\ ~mem.root.has
       /\ (h.pc = "sampleTool" \/ (h.pc = "done" /\ h.resp.kind = "rootList"))
    THEN [mem EXCEPT !.root = Arg(TRUE, KeysOf(m))]
    ELSE mem

\* a reading of the answer that takes the literal "Unknown" for a name
ToolNameFromAnswerLiteral(a) ==
    IF a.ok /\ a.text # EmptyStr THEN Arg(TRUE, a.text) ELSE NoArg

\* GetToolNameFromIntentAsync: the tool a sampling answer names, if any
ToolNameFromAnswer(a) ==
    IF a.ok /\ a.text # EmptyStr /\ a.text # <<"Unknown">>
    THEN Arg(TRUE, a.text) ELSE NoArg

\* the answers of the peer to the provider-selection prompt: a failed
\* round-trip, or a text
ToolAnswers ==
    {[ok |-> FALSE, text |-> <<>>]}
    \cup {[ok |-> TRUE, text |-> t] :
            t \in {EmptyStr, <<"Unknown">>, <<"ghost">>, StorageId,
                   <<"search">>}}

\* the answers to the command-selection prompt: a failed round-trip, an
\* empty text, a text that is no JSON, or a JSON object with an optional
\* "tool" string and an optional "parameters" object
CmdAnswers ==
    {[form |-> f, tool |-> NoArg, params |-> Arg(FALSE, {})] :
        f \in {"failed", "empty", "notjson"}}
    \cup {[form |-> "json", tool |-> t, params |-> q] :
            t \in {NoArg, Arg(TRUE, <<"Unknown">>), Arg(TRUE, <<"list">>)},
            q \in ParamArgs}

\* GetCommandAndParametersFromIntentAsync: the command an answer names
CommandFromAnswer(a) ==
    IF a.form = "json" /\ a.tool.has /\ a.tool.val # <<"Unknown">>
    THEN a.tool ELSE NoArg

--------------------------------------------------------------------------
(* Initial state and start-up *)

NoEffects == [install |-> 0, upgrade |-> 0, spawn |-> 0, init |-> 0, fail |-> 0]

NoMemo == [root |-> Arg(FALSE, <<>>), lists |-> [n \in Names |-> Arg(FALSE, <<>>)]]

\* the one tool every router registers at start-up
AzureToolName == <<"azure">>

\* the Go routers neither read the peer's capabilities nor (v1) the manifest
Init ==
    /\ impl \in Impls
    /\ sampling \in IF impl \in GoImpls THEN {FALSE} ELSE BOOLEAN
    /\ \E sc \in Scenarios : azdOut = sc[1] /\ manifest = sc[2]
    /\ impl = "v1" => manifest = NoManifest
    /\ phase = "boot"
    /\ childTools = <<>>
    /\ providers = <<>>
    /\ initialized = FALSE
    /\ cache = [n \in Names |-> 0]
    /\ clients = <<>>
    /\ effects = [n \in Names |-> NoEffects]
    /\ memo = NoMemo
    /\ hs = [h \in Handlers |-> IdleH]
    /\ nreq = 0
    /\ tools = {AzureToolName}
    /\ provCaps = Capabilities

\* start-up (RunE of "server start") ends with an error
StartFails ==
    CASE impl = "v1" -> ~azdOut.ok
      [] impl \in {"v2", "flat"} -> ~azdOut.ok \/ manifest.state = "malformed"
      [] OTHER -> FALSE

\* the listing built at start-up: v1 childTools of
\* loadMcpChildToolsMetadata, v2 one entry per element of allTools
ChildToolsAtStart ==
    CASE impl = "v1" -> ChildToolsV1(azdOut)
      [] impl = "v2" -> KeysOf(AllTools(azdOut, manifest))
      [] OTHER -> <<>>

\* the catalog built at start-up: v1 extList, v2 toolMetadataMap
ProvidersAtStart ==
    CASE impl = "v1" -> ExtListV1(azdOut)
      [] impl \in {"v2", "flat"} -> PutAll(<<>>, AllTools(azdOut, manifest))
      [] OTHER -> <<>>

\* RunE of "server start" (Go) / the construction of AzureTool (C#)
Start ==
    /\ phase = "boot"
    /\ phase' = IF StartFails THEN "failed" ELSE "serving"
    /\ childTools' = IF StartFails THEN <<>> ELSE ChildToolsAtStart
    /\ providers' = IF StartFails THEN <<>> ELSE ProvidersAtStart
    /\ UNCHANGED <<tools, provCaps, impl, sampling, azdOut, manifest, initialized, cache,
                   clients, effects, memo, hs, nreq>>

--------------------------------------------------------------------------
(* The steps of a request *)

Bump(f, key, field) == [f EXCEPT ![key][field] = @ + 1]

\* the handler has run one more establishment step
Ran(h, step) == [h EXCEPT !.ran = Append(@, step)]

\* a cache that drops what it is given
ForgetClient(c, key, client) == c

\* toolClientCache[cacheKey] = toolClient / _clientCache[name] = client
StoreClient(c, key, client) == [c EXCEPT ![key] = client]

\* a cache that keeps whatever CreateClient was building
CacheRegardless(c, key, client, ok) == [c EXCEPT ![key] = client]

\* the cache after CreateClient returned: the handler returns before the
\* store when CreateClient failed
CacheAfterCreate(c, key, client, ok) ==
    IF ok THEN StoreClient(c, key, client) ELSE c

\* the "azure" tool is called with a request of R: the handler runs to
\* its first wait
ReceiveOf(h, R) ==
    /\ phase = "serving"
    /\ hs[h].pc = "idle"
    /\ nreq < MaxRequests
    /\ \E r \in R :
         LET discover == impl \in CsImpls /\ ~initialized
                         /\ ClassifyCs(r) # "guidance"
             m  == IF discover THEN ProviderMapCs(azdOut, manifest)
                   ELSE providers
             h1 == IF impl \in GoImpls
                   THEN HandleGo(IdleH, r, m, cache, childTools)
                   ELSE HandleCs(IdleH, r, m, cache, memo)
         IN  /\ hs' = [hs EXCEPT ![h] = h1]
             /\ providers' = m
             /\ initialized' = (initialized \/ discover)
             /\ memo' = MemoRoot(memo, h1, m)
    /\ nreq' = nreq + 1
    /\ UNCHANGED <<tools, provCaps, impl, sampling, azdOut, manifest, phase, childTools,
                   cache, clients, effects>>

Receive(h) == ReceiveOf(h, Requests)

\* C# Installed = true / Version = LatestVersion after a step succeeded
AfterStepDesc(d, step) ==
    IF impl \in CsImpls
    THEN [d EXCEPT !.installed = TRUE, !.version = d.latest]
    ELSE d

\* "azd ext install" / "azd ext upgrade" returns
Ensure(h) ==
    /\ hs[h].pc = "ensure"
    /\ \E ok \in BOOLEAN :
         LET key == hs[h].key
             d   == DescOf(providers, key)
         IN  IF ok
             THEN /\ providers' = Put(providers, key, AfterStepDesc(d, hs[h].step))
                  /\ hs' = [hs EXCEPT ![h] =
                               AfterEnsure(Ran(hs[h], hs[h].step),
                                           AfterStepDesc(d, hs[h].step))]
                  /\ effects' = Bump(effects, key, hs[h].step)
             ELSE /\ providers' = providers
                  /\ hs' = [hs EXCEPT ![h] =
                               ClientFailure(Ran(hs[h], hs[h].step),
                                             Cause(hs[h].step, d.id))]
                  /\ effects' = Bump(Bump(effects, key, hs[h].step), key, "fail")
    /\ UNCHANGED <<tools, provCaps, impl, sampling, azdOut, manifest, phase, childTools,
                   initialized, cache, clients, memo, nreq>>

\* the provider process is started / the HTTP connection opened
Spawn(h) ==
    /\ hs[h].pc = "spawn"
    /\ \E ok \in BOOLEAN :
         LET key == hs[h].key
             d   == DescOf(providers, key)
         IN  IF ok
             THEN /\ hs' = [hs EXCEPT ![h] =
                               [Ran(hs[h], "spawn") EXCEPT !.pc = "init"]]
                  /\ effects' = Bump(effects, key, "spawn")
             ELSE /\ hs' = [hs EXCEPT ![h] =
                               ClientFailure(Ran(hs[h], "spawn"),
                                             Cause("start", d.id))]
                  /\ effects' = Bump(Bump(effects, key, "spawn"), key, "fail")
    /\ UNCHANGED <<tools, provCaps, impl, sampling, azdOut, manifest, phase, childTools,
                   providers, initialized, cache, clients, memo, nreq>>

\* the initialize handshake returns; on success the client is stored
\* under its cache key
Initialize(h) ==
    /\ hs[h].pc = "init"
    /\ \E ok \in BOOLEAN :
         LET key == hs[h].key
             d   == DescOf(providers, key)
             c   == Len(clients) + 1
         IN  IF ok
             THEN /\ clients' = Append(clients, [key |-> key, alive |-> TRUE])
                  /\ cache' = CacheAfterCreate(cache, key, c, TRUE)
                  /\ hs' = [hs EXCEPT ![h] =
                               UseClient([Ran(hs[h], "init") EXCEPT !.got = "made"], c)]
                  /\ effects' = Bump(effects, key, "init")
             ELSE /\ clients' = clients
                  /\ cache' = CacheAfterCreate(cache, key, c, FALSE)
                  /\ hs' = [hs EXCEPT ![h] =
                               ClientFailure(Ran(hs[h], "init"),
                                             Cause("initialize", d.id))]
                  /\ effects' = Bump(Bump(effects, key, "init"), key, "fail")
    /\ UNCHANGED <<tools, provCaps, impl, sampling, azdOut, manifest, phase, childTools,
                   providers, initialized, memo, nreq>>

\* the outcomes a call on client c can have: a dead provider process
\* only fails
CallOutcomes(c) ==
    IF c \in 1..Len(clients) /\ clients[c].alive THEN BOOLEAN ELSE {FALSE}

\* how a failed ListTools ends the request: the Go handlers return the
\* error, the C# handler lets the exception escape
ListFailure(h) == Done(h, Raised(Cause("list", h.tool)))

\* the name a provider is registered under by registerRootTools
RootToolName(key) == <<"azure">> \o key

\* the names the capabilities of a provider are registered under by
\* registerCategoryTools
CategoryTools(key) ==
    [i \in 1..Len(provCaps) |-> RootToolName(key) \o provCaps[i]]

\* how a ListTools answer continues the request
ListSuccess(h) ==
    IF impl = "flat" THEN Done(h, ToolList(h.tool, CategoryTools(h.tool)))
    ELSE IF impl \in GoImpls THEN Done(h, ToolList(h.tool, provCaps))
    ELSE AfterListCs(h, provCaps)

\* the operations advertised after ListTools returned: the flattening
\* handler adds the category tools
ToolsAfterList(h, ok) ==
    IF impl = "flat" /\ ok
    THEN tools \cup {CategoryTools(h.tool)[i] : i \in 1..Len(provCaps)}
    ELSE tools

\* csB GetToolListJsonAsync stores the serialized list
MemoList(mem, tool) ==
    IF impl = "csB" THEN [mem EXCEPT !.lists[tool] = Arg(TRUE, provCaps)]
    ELSE mem

\* toolClient.ListTools returns
ListTools(h) ==
    /\ hs[h].pc = "list"
    /\ \E ok \in CallOutcomes(hs[h].client) :
         IF ok
         THEN /\ hs' = [hs EXCEPT ![h] = ListSuccess(hs[h])]
              /\ memo' = MemoList(memo, hs[h].tool)
              /\ tools' = ToolsAfterList(hs[h], TRUE)
         ELSE /\ hs' = [hs EXCEPT ![h] = ListFailure(hs[h])]
              /\ memo' = memo
              /\ tools' = ToolsAfterList(hs[h], FALSE)
    /\ UNCHANGED <<provCaps, impl, sampling, azdOut, manifest, phase, childTools,
                   providers, initialized, cache, clients, effects, nreq>>

\* an invocation that names the provider where the command belongs
InvocationOfTool(h) ==
    [key |-> h.key, client |-> h.client, command |-> h.tool,
     params |-> h.params]

\* the invocation a handler sends: childRequest / CallToolAsync arguments
Invocation(h) ==
    [key |-> h.key, client |-> h.client, command |-> h.command,
     params |-> h.params]

\* how a CallTool answer ends the request
CallSuccess(h) ==
    Done(h, PassThrough(ProviderResult(h.key, h.command, h.params.val)))

\* how a failed CallTool ends the request; the flattening handler
\* returns the error
CallFailure(h) ==
    IF impl = "flat" THEN Done(h, Raised(Cause("call", h.key)))
    ELSE Done(h, CallFail(h.tool, h.command, Cause("call", h.key)))

\* toolClient.CallTool returns; an unknown command is an error
CallTool(h) ==
    /\ hs[h].pc = "call"
    /\ \E ok \in CallOutcomes(hs[h].client) :
         LET h1 == [hs[h] EXCEPT !.calls = Append(@, Invocation(hs[h]))]
         IN  hs' = [hs EXCEPT ![h] =
                      IF ok /\ KnowsCommand(h1.command)
                      THEN CallSuccess(h1) ELSE CallFailure(h1)]
    /\ UNCHANGED <<tools, provCaps, impl, sampling, azdOut, manifest, phase, childTools,
                   providers, initialized, cache, clients, effects, memo, nreq>>

\* the peer answers the provider-selection prompt of RootLearnModeAsync
SampleTool(h) ==
    /\ hs[h].pc = "sampleTool"
    /\ hs[h].samples < MaxSamples
    /\ \E a \in ToolAnswers :
         LET h1 == [hs[h] EXCEPT !.samples = @ + 1, !.asked = "tool",
                                 !.answer = <<a>>]
             h2 == IF ToolNameFromAnswer(a).has
                   THEN ToolLearnCs([h1 EXCEPT !.mode = "learn",
                                               !.tool = ToolNameFromAnswer(a).val],
                                    providers, cache, memo)
                   ELSE Done(h1, h1.resp)
         IN  /\ hs' = [hs EXCEPT ![h] = h2]
             /\ memo' = MemoRoot(memo, h2, providers)
    /\ UNCHANGED <<tools, provCaps, impl, sampling, azdOut, manifest, phase, childTools,
                   providers, initialized, cache, clients, effects, nreq>>

\* the peer answers the command-selection prompt of ToolLearnModeAsync
SampleCmd(h) ==
    /\ hs[h].pc = "sampleCmd"
    /\ hs[h].samples < MaxSamples
    /\ \E a \in CmdAnswers :
         LET h1 == [hs[h] EXCEPT !.samples = @ + 1, !.asked = "command",
                                 !.answer = <<a>>]
             h2 == IF CommandFromAnswer(a).has
                   THEN GetClientCs([h1 EXCEPT !.mode = "invoke",
                                       !.command = CommandFromAnswer(a).val,
                                       !.params = GetParametersDictionary(a.params)],
                                    providers, cache, memo)
                   ELSE Done(h1, h1.resp)
         IN  /\ hs' = [hs EXCEPT ![h] = h2]
             /\ memo' = MemoRoot(memo, h2, providers)
    /\ UNCHANGED <<tools, provCaps, impl, sampling, azdOut, manifest, phase, childTools,
                   providers, initialized, cache, clients, effects, nreq>>

\* the response is sent and the handler returns
Reply(h) ==
    /\ hs[h].pc = "done"
    /\ hs' = [hs EXCEPT ![h] = IdleH]
    /\ UNCHANGED <<tools, provCaps, impl, sampling, azdOut, manifest, phase, childTools,
                   providers, initialized, cache, clients, effects, memo, nreq>>

\* the process behind a client dies
ProviderDies(c) ==
    /\ c \in 1..Len(clients)
    /\ clients[c].alive
    /\ clients' = [clients EXCEPT ![c].alive = FALSE]
    /\ UNCHANGED <<tools, provCaps, impl, sampling, azdOut, manifest, phase, childTools,
                   providers, initialized, cache, effects, memo, hs, nreq>>

--------------------------------------------------------------------------
(* The flattening router *)

\* the root tools the "azure" handler registers: one per catalog entry
RootTools == {RootToolName(providers[i].key) : i \in 1..Len(providers)}

\* the "azure" tool of the flattening router is called: it registers the
\* root tools and answers with their list, whatever the arguments
CallAzureTool(h) ==
    /\ impl = "flat"
    /\ phase = "serving"
    /\ hs[h].pc = "idle"
    /\ nreq < MaxFlatCalls
    /\ tools' = tools \cup RootTools
    /\ hs' = [hs EXCEPT ![h] =
                Done([IdleH EXCEPT !.class = "azure", !.mode = "root"],
                     RootList([i \in 1..Len(providers) |->
                                  RootToolName(providers[i].key)]))]
    /\ nreq' = nreq + 1
    /\ UNCHANGED <<provCaps, impl, sampling, azdOut, manifest, phase, childTools,
                   providers, initialized, cache, clients, effects, memo>>

\* a registered root tool "azure_<name>" is called: the handler gets or
\* creates the client of <name> and lists its tools
CallRootTool(h) ==
    /\ impl = "flat"
    /\ phase = "serving"
    /\ hs[h].pc = "idle"
    /\ nreq < MaxFlatCalls
    /\ \E t \in tools \cap RootTools :
         LET key == Tail(t)
             h1  == [IdleH EXCEPT !.class = "rootTool", !.mode = "learn",
                                  !.tool = key, !.key = key]
         IN  hs' = [hs EXCEPT ![h] =
                      IF cache[key] # 0
                      THEN UseClient([h1 EXCEPT !.got = "hit"], cache[key])
                      ELSE BeginCreate(h1, DescOf(providers, key))]
    /\ nreq' = nreq + 1
    /\ UNCHANGED <<tools, provCaps, impl, sampling, azdOut, manifest, phase, childTools,
                   providers, initialized, cache, clients, effects, memo>>

\* a registered category tool "azure_<name>_<command>" is called: the
\* handler strips the category prefix and calls the client of <name>
CallCategoryTool(h) ==
    /\ impl = "flat"
    /\ phase = "serving"
    /\ hs[h].pc = "idle"
    /\ nreq < MaxFlatCalls
    /\ \E t \in tools \ ({AzureToolName} \cup RootTools), p \in ParamArgs :
         LET key == SubSeq(t, 2, Len(t) - 1)
             h1  == [IdleH EXCEPT !.class = "categoryTool", !.mode = "invoke",
                                  !.tool = key, !.key = key,
                                  !.command = SubSeq(t, Len(t), Len(t)),
                                  !.params = p, !.got = "hit"]
         IN  hs' = [hs EXCEPT ![h] = UseClient(h1, cache[key])]
    /\ nreq' = nreq + 1
    /\ UNCHANGED <<tools, provCaps, impl, sampling, azdOut, manifest, phase, childTools,
                   providers, initialized, cache, clients, effects, memo>>

--------------------------------------------------------------------------
(* Specifications *)

\* one request at a time
Next ==
    \/ Start
    \/ Receive(1)
    \/ Ensure(1)
    \/ Spawn(1)
    \/ Initialize(1)
    \/ ListTools(1)
    \/ CallTool(1)
    \/ SampleTool(1)
    \/ SampleCmd(1)
    \/ Reply(1)
    \/ \E c \in 1..MaxRequests : ProviderDies(c)

Spec == Init /\ [][Next]_vars

\* the requests of the concurrent runs: Provider-Learn and Invoke of the
\* storage provider, and of a name the catalog does not hold
ConcRequests ==
    { r \in Requests :
        /\ r.tool.has /\ r.tool.val \in {<<"storage">>, StorageId}
        /\ r.intent = "" /\ ~r.params.has
        /\ r.learn = ~r.command.has }

\* the concurrent runs are runs of the C# router, whose server starts the
\* handler of a request without awaiting the previous one; they start
\* with mcp.storage known to the extension manager and a peer without
\* sampling
InitConc ==
    /\ Init
    /\ impl \in CsImpls
    /\ ~sampling
    /\ manifest = NoManifest
    /\ azdOut \in {[ok |-> TRUE, exts |-> <<e>>] : e \in {NotInstalled, Current}}

ReceiveConc(h) == ReceiveOf(h, ConcRequests)

\* requests handled concurrently
NextConc ==
    \/ Start
    \/ \E h \in Handlers :
          \/ ReceiveConc(h)
          \/ Ensure(h)
          \/ Spawn(h)
          \/ Initialize(h)
          \/ ListTools(h)
          \/ CallTool(h)
          \/ Reply(h)
    \/ \E c \in 1..MaxRequests : ProviderDies(c)

SpecConc == InitConc /\ [][NextConc]_vars

\* the flattening router starts like the always-proxy one
InitFlat ==
    /\ impl = "flat"
    /\ sampling = FALSE
    /\ \E sc \in Scenarios : azdOut = sc[1] /\ manifest = sc[2]
    /\ phase = "boot"
    /\ childTools = <<>>
    /\ providers = <<>>
    /\ initialized = FALSE
    /\ cache = [n \in Names |-> 0]
    /\ clients = <<>>
    /\ effects = [n \in Names |-> NoEffects]
    /\ memo = NoMemo
    /\ hs = [h \in Handlers |-> IdleH]
    /\ nreq = 0
    /\ tools = {AzureToolName}
    /\ provCaps = Capabilities

\* the flattening router, one request at a time
NextFlat ==
    \/ Start
    \/ CallAzureTool(1)
    \/ CallRootTool(1)
    \/ CallCategoryTool(1)
    \/ Ensure(1)
    \/ Spawn(1)
    \/ Initialize(1)
    \/ ListTools(1)
    \/ CallTool(1)
    \/ Reply(1)
    \/ \E c \in 1..MaxRequests : ProviderDies(c)

SpecFlat == InitFlat /\ [][NextFlat]_vars

--------------------------------------------------------------------------
(* Classification of a request *)

\* the handlers that hold a request
Busy == {h \in Handlers : hs[h].pc # "idle"}

\* C1: a request is classified from learn, the provider name and the
\* command: learn with neither name nor command is Root-Learn; learn with
\* a name and no command is Provider-Learn of that name; a name and a
\* command without learn is Invoke; a request with nothing set is
\* Underspecified and its response is the guidance text.  Until a
\* sampling answer redirects it, a Provider-Learn request sends no
\* invocation and an Invoke request is not answered with a capability list.
C1_Classification ==
    \A h \in Busy :
        LET s == hs[h]
            r == s.req
            named == r.tool.has /\ r.tool.val # EmptyStr
        IN  /\ (r.learn /\ ~r.tool.has /\ ~r.command.has) => s.class = "root"
            /\ (r.learn /\ named /\ ~r.command.has) =>
                   /\ s.class = "learn"
                   /\ s.samples = 0 => (s.mode = "learn" /\ s.tool = r.tool.val)
                   /\ s.calls = <<>> \/ s.samples > 0
            /\ (~r.learn /\ named /\ r.command.has) =>
                   /\ s.class = "invoke"
                   /\ s.samples = 0 => s.resp.kind # "toolList"
            /\ (~r.learn /\ ~r.tool.has /\ ~r.command.has /\ r.intent = "") =>
                   /\ s.class = "guidance"
                   /\ s.pc = "done"
                   /\ s.resp = Guidance

\* a Provider-Learn request for a known provider has been answered with
\* the provider's capability list
C1_Witness ==
    \E h \in Busy :
        /\ hs[h].req.learn /\ hs[h].req.tool.has /\ ~hs[h].req.command.has
        /\ hs[h].class = "learn"
        /\ hs[h].pc = "done"
        /\ hs[h].resp = ToolList(hs[h].req.tool.val, Capabilities)

--------------------------------------------------------------------------
(* The client cache, one request at a time *)

\* the clients constructed for a cache key
ClientsOf(k) == {i \in 1..Len(clients) : clients[i].key = k}

\* C2: with one request at a time, every request that obtains a client
\* for a provider obtains the one instance the cache holds for it, at
\* most one client is ever constructed per provider, and while no
\* establishment step has failed each of install / upgrade, spawn or
\* connect, and the handshake has run at most once for it (exactly once
\* once the cache holds the client).
C2_SameClientOnce ==
    /\ \A k \in Names :
          /\ Cardinality(ClientsOf(k)) <= 1
          /\ effects[k].fail = 0 =>
                /\ effects[k].install + effects[k].upgrade <= 1
                /\ effects[k].spawn <= 1
                /\ effects[k].init <= 1
                /\ cache[k] # 0 => (effects[k].spawn = 1 /\ effects[k].init = 1)
    /\ \A h \in Busy :
          hs[h].got \in {"hit", "made"} =>
              /\ hs[h].client = cache[hs[h].key]
              /\ hs[h].client \in ClientsOf(hs[h].key)

\* a second request has found in the cache the client the first one made,
\* and no establishment step has failed
C2_Witness ==
    \E h \in Busy :
        /\ nreq = 2
        /\ hs[h].got = "hit"
        /\ hs[h].client = cache[hs[h].key]
        /\ effects[hs[h].key].fail = 0
        /\ effects[hs[h].key].init = 1

--------------------------------------------------------------------------
(* The client cache under concurrent requests *)

\* C3: when several requests concurrently make the first use of one
\* uncached provider, one client is constructed: any two handlers that
\* hold a client for the same cache key hold the same instance, and while
\* no step has failed the spawn and the handshake have run at most once
\* for that key.
C3_OneConstruction ==
    /\ \A h1, h2 \in Busy :
          (hs[h1].client # 0 /\ hs[h2].client # 0 /\ hs[h1].key = hs[h2].key)
              => hs[h1].client = hs[h2].client
    /\ \A k \in Names :
          effects[k].fail = 0 => (effects[k].spawn <= 1 /\ effects[k].init <= 1)

--------------------------------------------------------------------------
(* A failed client establishment *)

\* the handlers that resolved a provider and did not find it in the cache
Establishing == {h \in Busy : hs[h].key # <<>> /\ hs[h].got # "hit"}

\* C4: a failed establishment step stores nothing: after the failure, and
\* while a handler is still establishing, the cache has no entry for the
\* key; and a request that finds no entry runs establishment itself from
\* the start: it is past the extension-manager step of an extension that
\* is not installed only after it ran "install" as its own first step, and
\* it holds a client only after its own spawn and handshake.
C4_FailureNotCached ==
    \A h \in Establishing :
        LET s == hs[h]
            d == DescOf(providers, s.key)
        IN  /\ s.got = "failed" => cache[s.key] = 0
            /\ s.pc \in {"ensure", "spawn", "init"} => cache[s.key] = 0
            /\ (d.kind = "azd" /\ ~d.installed /\ s.ran # <<>>) =>
                   s.ran[1] = "install"
            /\ (d.kind = "azd" /\ ~d.installed /\ s.pc \in {"spawn", "init"}) =>
                   s.ran # <<>>
            /\ s.got = "made" =>
                   /\ Len(s.ran) >= 2
                   /\ s.ran[Len(s.ran) - 1] = "spawn"
                   /\ s.ran[Len(s.ran)] = "init"

\* after a request whose install failed, the next request for the same
\* provider has run install again, with success, and is starting the
\* provider
C4_Witness ==
    \E h \in Establishing :
        /\ nreq = 2
        /\ effects[hs[h].key].install = 2
        /\ effects[hs[h].key].fail = 1
        /\ cache[hs[h].key] = 0
        /\ hs[h].ran = <<"install">>
        /\ hs[h].pc = "spawn"

--------------------------------------------------------------------------
(* A provider name the catalog does not hold *)

\* C5: a Provider-Learn or Invoke request whose provider name is not in
\* the catalog is answered, without a raised error, with the not-found
\* text, which names the missing provider and points to Root-Learn.
C5_NotFoundNamesProvider ==
    \A h \in Busy :
        LET s == hs[h]
        IN  (/\ s.pc = "done"
             /\ s.class \in {"learn", "invoke"}
             /\ Lookup(providers, s.req.tool.val) = 0)
                => s.resp = NotFound(s.req.tool.val)

--------------------------------------------------------------------------
(* A request that carries only an intent *)

\* C6: a request with a non-empty intent and neither learn, provider name
\* nor command is handled as Root-Learn: unless a sampling answer
\* redirects it, its response is the provider listing and never the
\* guidance text.
C6_IntentPromotion ==
    \A h \in Busy :
        LET s == hs[h]
            r == s.req
        IN  (~r.learn /\ ~r.tool.has /\ ~r.command.has /\ r.intent # "") =>
                /\ s.class = "root"
                /\ s.resp # Guidance
                /\ (s.pc = "done" /\ s.samples = 0) => s.resp.kind = "rootList"

--------------------------------------------------------------------------
(* The catalog *)

\* no element occurs twice in the sequence
NoDuplicates(q) == \A i, j \in 1..Len(q) : q[i] = q[j] => i = j

\* C7: for every extension-manager output and manifest, no provider name
\* occurs twice in the merged catalog, in the listing built from it, or
\* in a Root-Learn response.
C7_UniqueIds ==
    /\ NoDuplicates(KeysOf(providers))
    /\ NoDuplicates(childTools)
    /\ \A h \in Busy :
          hs[h].resp.kind = "rootList" => NoDuplicates(hs[h].resp.list)

\* the names the router itself goes by: its id, and its id without "mcp."
SelfNames == {SelfId, TrimPrefix(SelfId)}

\* C8: the router is not part of its own catalog: no listing names it, no
\* request resolves to its descriptor, and it never installs, starts or
\* caches a client for itself.
C8_NoSelfReference ==
    /\ \A i \in 1..Len(childTools) : childTools[i] \notin SelfNames
    /\ \A h \in Busy :
          /\ hs[h].resp.kind = "rootList" =>
                \A i \in 1..Len(hs[h].resp.list) :
                    hs[h].resp.list[i] \notin SelfNames
          /\ hs[h].key # <<>> => DescOf(providers, hs[h].key).id # SelfId
    /\ \A k \in SelfNames : cache[k] = 0 /\ effects[k] = NoEffects

--------------------------------------------------------------------------
(* Invoke *)

\* C9: an Invoke request whose provider name resolves and whose client
\* is established sends one invocation, to that client, with the
\* request's command as the capability name and the request's parameters;
\* the result the provider gives for it is the response.
C9_SingleInvocation ==
    \A h \in Busy :
        LET s == hs[h]
            r == s.req
        IN  (/\ s.class = "invoke"
             /\ Lookup(providers, r.tool.val) # 0
             /\ s.got \in {"hit", "made"})
                => /\ s.pc \in {"call", "done"}
                   /\ s.pc = "call" => s.calls = <<>>
                   /\ s.pc = "done" =>
                         /\ Len(s.calls) = 1
                         /\ s.calls[1].key = providers[Lookup(providers, r.tool.val)].key
                         /\ s.calls[1].client = s.client
                         /\ s.calls[1].command = r.command.val
                         /\ s.calls[1].params.val = r.params.val
                         /\ s.resp.kind \in {"result", "callFail"}
                         /\ s.resp.kind = "result" =>
                               s.resp = PassThrough(ProviderResult(s.calls[1].key,
                                                                   r.command.val,
                                                                   r.params.val))

\* an Invoke request with parameters has been answered with the
\* provider's result
C9_Witness ==
    \E h \in Busy :
        /\ hs[h].class = "invoke"
        /\ hs[h].req.params.has
        /\ hs[h].pc = "done"
        /\ Len(hs[h].calls) = 1
        /\ hs[h].resp.kind = "result"

--------------------------------------------------------------------------
(* Raised errors *)

\* C10: once discovery has succeeded no request ends in a raised error:
\* every response is a successful result.
C10_NoRaisedError ==
    \A h \in Busy : ~hs[h].resp.err

--------------------------------------------------------------------------
(* A failed extension-manager query *)

\* C11: when the extension-manager query fails, discovery fails: the
\* router does not take an empty catalog for the result of a discovery,
\* and every request that needs the catalog ends in a raised error.
C11_DiscoveryFailureSurfaced ==
    ~azdOut.ok =>
        /\ ~initialized
        /\ \A h \in Busy :
              hs[h].class # "guidance" => (hs[h].pc = "done" /\ hs[h].resp.err)

--------------------------------------------------------------------------
(* Sampling answers that select nothing *)

\* the peer's answer to the provider-selection prompt selects nothing:
\* the round-trip failed, or the text is empty or the literal "Unknown"
NoToolSelected(a) == ~a.ok \/ a.text \in {EmptyStr, <<"Unknown">>}

\* the peer's answer to the command-selection prompt selects nothing:
\* the round-trip failed, the text is empty or no JSON, or the JSON names
\* no command or the literal "Unknown"
NoCommandSelected(a) ==
    \/ a.form # "json"
    \/ ~a.tool.has
    \/ a.tool.val = <<"Unknown">>

\* C12: when the answer to a sampling round-trip selects nothing, the
\* request ends there, without a raised error, with the plain listing of
\* the mode that asked: the provider listing after the provider-selection
\* prompt, the capability list of the provider after the
\* command-selection prompt -- the responses a peer without sampling gets
\* from Root-Learn and from Provider-Learn of that provider.
C12_SamplingFallback ==
    \A h \in Busy :
        LET s == hs[h]
        IN  /\ (s.asked = "tool" /\ NoToolSelected(s.answer[1])) =>
                   /\ s.pc = "done"
                   /\ s.resp = RootList(KeysOf(providers))
            /\ (s.asked = "command" /\ NoCommandSelected(s.answer[1])) =>
                   /\ s.pc = "done"
                   /\ s.resp = ToolList(s.tool, Capabilities)
                   /\ s.calls = <<>>

\* the peer answered the provider-selection prompt with "Unknown" and the
\* request ended with the provider listing
C12_Witness ==
    \E h \in Busy :
        /\ hs[h].asked = "tool"
        /\ hs[h].answer[1].ok /\ hs[h].answer[1].text = <<"Unknown">>
        /\ hs[h].pc = "done"
        /\ hs[h].resp.kind = "rootList"
        /\ hs[h].resp.list # <<>>

--------------------------------------------------------------------------
(* The operations the router advertises *)

\* C13: the router advertises one operation, the "azure" tool, in every
\* reachable state: no request adds an operation to the server's tool
\* set or removes one from it.
C13_SingleOperation == tools = {AzureToolName}

--------------------------------------------------------------------------
(* Lazy creation of provider clients *)

\* the catalog key of the provider a request names, <<>> when it names none
NamedKey(r) ==
    IF Lookup(providers, r.tool.val) = 0 THEN <<>>
    ELSE providers[Lookup(providers, r.tool.val)].key

\* C14: provider clients are created on demand.  Before the first
\* request the cache holds no client and no install, upgrade or spawn has
\* run; a Root-Learn request that received no sampling answer resolves no
\* provider, runs no establishment step and holds no client; the provider
\* a Provider-Learn or Invoke request works on -- the only cache key its
\* handler writes -- is the provider the request names.
C14_LazyClients ==
    /\ nreq = 0 =>
          /\ clients = <<>>
          /\ \A k \in DOMAIN cache : cache[k] = 0
          /\ \A k \in DOMAIN effects : effects[k] = NoEffects
    /\ \A h \in Busy :
          LET s == hs[h]
          IN  /\ (s.class = "root" /\ s.samples = 0) =>
                     (s.key = <<>> /\ s.ran = <<>> /\ s.client = 0)
              /\ (s.class \in {"learn", "invoke"} /\ s.key # <<>>) =>
                     s.key = NamedKey(s.req)


--------------------------------------------------------------------------
(* Requests that match no mode *)

\* C15: a request with learn set, a provider name and a command matches
\* none of the three modes: it is answered with the guidance text, and no
\* provider is resolved for it, so neither a capability list is fetched
\* nor a command invoked.
C15_LearnWithCommand ==
    \A h \in Busy :
        LET s == hs[h]
        IN  (s.req.learn /\ ~IsNullOrEmpty(s.req.tool) /\ s.req.command.has) =>
                /\ s.class = "guidance"
                /\ s.pc = "done"
                /\ s.resp = Guidance
                /\ s.key = <<>>
                /\ s.calls = <<>>

\* a request without learn that lacks the provider name or the command,
\* other than the request that carries only an intent
Underspecified(r) ==
    /\ ~r.learn
    /\ ~r.tool.has \/ ~r.command.has
    /\ ~(r.intent # "" /\ IsNullOrEmpty(r.tool) /\ IsNullOrEmpty(r.command))

--------------------------------------------------------------------------
(* The invocations of an Invoke request *)

\* C17: an Invoke request sends at most one invocation, and that one
\* carries the command of the request to the provider the request names;
\* a request that names no provider of the catalog sends none, whatever
\* the peer answers to sampling prompts.
C17_InvokeNamedOnly ==
    \A h \in Busy :
        LET s == hs[h]
        IN  s.class = "invoke" =>
                /\ Len(s.calls) <= 1
                /\ \A i \in 1..Len(s.calls) :
                      /\ s.calls[i].key = NamedKey(s.req)
                      /\ s.calls[i].command = s.req.command.val
                /\ NamedKey(s.req) = <<>> => s.calls = <<>>

--------------------------------------------------------------------------
(* Sampling round-trips of one request *)

\* C18: a request issues at most one provider-selection round-trip and at
\* most one command-selection round-trip: a handler waits for the answer
\* to a provider-selection prompt only before any answer has arrived, and
\* for the answer to a command-selection prompt only when at most the
\* provider-selection answer has arrived.
C18_OneRoundTripEach ==
    \A h \in Busy :
        LET s == hs[h]
        IN  /\ s.pc = "sampleTool" => s.samples = 0
            /\ s.pc = "sampleCmd" => (s.samples <= 1 /\ s.asked # "command")

\* the last provider-selection answer names an id that is not a catalog key
NamesUnknown(s) ==
    /\ s.asked = "tool"
    /\ ToolNameFromAnswer(s.answer[1]).has
    /\ Lookup(providers, ToolNameFromAnswer(s.answer[1]).val) = 0

\* C19: during a Root-Learn request the handler works on a provider only
\* if it is a key of the catalog, and once the peer has named an id that
\* is not in the catalog the request is over, its response the provider
\* listing.
C19_UnknownIdEndsRootLearn ==
    \A h \in Busy :
        LET s == hs[h]
        IN  s.class = "root" =>
                /\ s.key # <<>> => Lookup(providers, s.key) # 0
                /\ NamesUnknown(s) =>
                      /\ s.pc = "done"
                      /\ s.resp = RootList(KeysOf(providers))

\* C20: a sampling round-trip is in flight or answered only for a peer
\* that supports sampling and a request with a non-empty intent.
C20_SamplingNeedsIntent ==
    \A h \in Busy :
        (hs[h].pc \in {"sampleTool", "sampleCmd"} \/ hs[h].samples > 0) =>
            (sampling /\ hs[h].req.intent # "")

--------------------------------------------------------------------------
(* The merged catalog *)

\* the catalog keys of the extensions the extension manager reported, as
\* the router names them
AzdKeys ==
    CASE impl = "v1" ->
            {azdOut.exts[i].id : i \in 1..Len(azdOut.exts)}
      [] impl \in {"v2", "flat"} ->
            {AzdToolName(LoadAzdToolMetadata(azdOut)[i]) :
                i \in 1..Len(LoadAzdToolMetadata(azdOut))}
      [] OTHER ->
            {ListAzdExtensionsAsync(azdOut)[i].id :
                i \in 1..Len(ListAzdExtensionsAsync(azdOut))}

\* C21: a handler that has resolved a provider whose key the extension
\* manager reported works with the extension-manager descriptor of that
\* key, also when mcp.json has a server of the same name.
C21_ExtensionManagerWins ==
    \A h \in Busy :
        (hs[h].key # <<>> /\ hs[h].key \in AzdKeys) =>
            DescOf(providers, hs[h].key).kind = "azd"

--------------------------------------------------------------------------
(* A router whose surroundings change while it serves *)

Outdated == Ext(StorageId, TRUE, 1, 2, StorageId)

\* what "azd ext list" can answer over the life of the router
EnvAzdOuts ==
    {[ok |-> TRUE, exts |-> x] : x \in {<<>>, <<Current>>, <<Outdated>>}}

\* requests without intent and parameters, for mcp.storage or no provider
EnvRequests ==
    { r \in Requests :
        /\ r.tool \in {NoArg, Arg(TRUE, <<"storage">>), Arg(TRUE, StorageId)}
        /\ r.intent = "" /\ ~r.params.has }

InitEnv ==
    /\ Init
    /\ ~sampling
    /\ manifest = NoManifest
    /\ azdOut \in EnvAzdOuts

\* an extension is installed, upgraded or removed outside the router:
\* "azd ext list" answers differently from now on
ExtensionsChange ==
    /\ phase = "serving"
    /\ azdOut' \in EnvAzdOuts \ {azdOut}
    /\ UNCHANGED <<tools, provCaps, impl, sampling, manifest, phase,
                   childTools, providers, initialized, cache, clients,
                   effects, memo, hs, nreq>>

\* the provider gains a capability: ListTools answers differently from
\* now on
CapabilitiesChange ==
    /\ phase = "serving"
    /\ provCaps = Capabilities
    /\ provCaps' = MoreCapabilities
    /\ UNCHANGED <<tools, impl, sampling, azdOut, manifest, phase,
                   childTools, providers, initialized, cache, clients,
                   effects, memo, hs, nreq>>

NextEnv ==
    \/ Start
    \/ ReceiveOf(1, EnvRequests)
    \/ Ensure(1)
    \/ Spawn(1)
    \/ Initialize(1)
    \/ ListTools(1)
    \/ CallTool(1)
    \/ Reply(1)
    \/ ExtensionsChange
    \/ CapabilitiesChange

SpecEnv == InitEnv /\ [][NextEnv]_vars

\* the provider listing a discovery query would give now
FreshListing ==
    CASE impl = "v1" -> ChildToolsV1(azdOut)
      [] impl = "v2" -> KeysOf(AllTools(azdOut, manifest))
      [] OTHER -> KeysOf(ProviderMapCs(azdOut, manifest))

\* C22: the response of a Root-Learn request lists the providers the
\* extension manager reports at the time of the request, also when its
\* answer has changed since the router started.
C22_FreshDiscovery ==
    [][\A h \in Handlers :
          (hs[h].pc = "idle" /\ hs'[h].pc = "done"
           /\ hs'[h].class = "root") =>
              hs'[h].resp = RootList(FreshListing)]_vars

\* C23: the capability list in the response of a Provider-Learn request
\* is the list the provider has at the time of the request, also when it
\* has changed since an earlier Provider-Learn request for the provider.
C23_FreshCapabilities ==
    [][\A h \in Handlers :
          (hs[h].pc # "done" /\ hs'[h].pc = "done"
           /\ hs'[h].class = "learn" /\ hs'[h].resp.kind = "toolList") =>
              hs'[h].resp.list = provCaps]_vars

--------------------------------------------------------------------------
(* The steps of a client establishment *)

\* the extension-manager step a descriptor calls for: install when not
\* installed, upgrade when installed with a version that precedes the
\* latest one, none otherwise
StepNeeded(d) ==
    IF ~d.installed THEN "install"
    ELSE IF SemverOk(d.version) /\ SemverOk(d.latest) /\ d.version < d.latest
    THEN "upgrade"
    ELSE "none"

\* handler h begins, in this step, to create a client for an extension
BeginsCreate(h) ==
    /\ hs[h].key = <<>>
    /\ hs'[h].key # <<>>
    /\ hs'[h].got # "hit"
    /\ DescOf(providers', hs'[h].key).kind = "azd"

\* C24: when a handler begins to create the client of an extension, it
\* issues "azd ext install" exactly if the extension is not installed,
\* "azd ext upgrade" exactly if it is installed with a version that
\* precedes the latest one, and neither otherwise.
C24_InstallOrUpgrade ==
    [][\A h \in Handlers :
          BeginsCreate(h) =>
              LET want == StepNeeded(DescOf(providers', hs'[h].key))
              IN  IF want = "none" THEN hs'[h].pc # "ensure"
                  ELSE hs'[h].pc = "ensure" /\ hs'[h].step = want]_vars

\* the last element of a non-empty sequence
Last(q) == q[Len(q)]

\* C25: the steps of an establishment come in order.  The process is
\* spawned (or the connection opened) only after the install or upgrade
\* step, if one ran, has succeeded; a failed install or upgrade ends the
\* request with no spawn; the handshake starts only after a successful
\* spawn; and a cache entry changes only in the step in which the
\* handshake of a handler for that key succeeds, after its spawn.
C25_EstablishmentOrder ==
    [][/\ \A h \in Handlers :
             LET s == hs[h]
                 t == hs'[h]
             IN  /\ (s.pc # "spawn" /\ t.pc = "spawn") =>
                        /\ t.ran \in {<<>>, <<"install">>, <<"upgrade">>}
                        /\ effects'[t.key].fail = effects[t.key].fail
                 /\ (s.pc = "ensure" /\ t # s
                     /\ effects'[s.key].fail > effects[s.key].fail) =>
                        /\ t.pc = "done" /\ t.got = "failed"
                        /\ effects'[s.key].spawn = effects[s.key].spawn
                        /\ \A i \in 1..Len(t.ran) : t.ran[i] \notin {"spawn", "init"}
                 /\ (s.pc # "init" /\ t.pc = "init") =>
                        /\ s.pc = "spawn"
                        /\ Last(t.ran) = "spawn"
                        /\ effects'[t.key].fail = effects[t.key].fail
       /\ \A k \in DOMAIN cache :
             cache'[k] # cache[k] =>
                 \E h \in Handlers :
                     /\ hs[h].pc = "init" /\ hs[h].key = k
                     /\ hs'[h].got = "made"
                     /\ Len(hs'[h].ran) >= 2
                     /\ Last(hs'[h].ran) = "init"
                     /\ hs'[h].ran[Len(hs'[h].ran) - 1] = "spawn"
                     /\ effects'[k].fail = effects[k].fail]_vars

\* a client has been stored after install, spawn and handshake
C25_Witness ==
    \E h \in Busy :
        /\ hs[h].ran = <<"install", "spawn", "init">>
        /\ hs[h].got = "made"
        /\ cache[hs[h].key] = hs[h].client
        /\ hs[h].client # 0

--------------------------------------------------------------------------
(* The cache entry of a provider *)

\* handler h, in this step, looks up the client of a provider whose
\* cache entry is filled and goes on to wait for a call
LooksUpCached(h) ==
    /\ hs[h].pc \in {"idle", "sampleTool", "sampleCmd"}
    /\ hs'[h].pc \notin {"idle", "sampleTool", "sampleCmd", "done"}
    /\ cache[hs'[h].key] # 0

\* C26: a lookup that finds a cache entry takes the client of the entry
\* and goes straight to the list or call: the step runs no establishment
\* step and changes neither the cache nor the clients, whether or not
\* the process behind the client is still alive.
C26_CacheHitOnly ==
    [][\A h \in Handlers :
          LooksUpCached(h) =>
              /\ hs'[h].got = "hit"
              /\ hs'[h].client = cache[hs'[h].key]
              /\ hs'[h].pc \in {"list", "call"}
              /\ hs'[h].ran = hs[h].ran
              /\ UNCHANGED <<cache, clients, effects>>]_vars

\* a request has been given the cached client of a provider whose
\* process had died, with no establishment step run for it
C26_Witness ==
    \E h \in Busy :
        /\ hs[h].got = "hit"
        /\ hs[h].ran = <<>>
        /\ ~clients[hs[h].client].alive
        /\ cache[hs[h].key] = hs[h].client
        /\ effects[hs[h].key].spawn = 1

\* C27: a filled cache entry keeps its client in every step, and no two
\* clients of one provider have been constructed whose processes are
\* both alive.
C27_EntryIsStable ==
    [][/\ \A k \in DOMAIN cache : cache[k] # 0 => cache'[k] = cache[k]
       /\ \A i, j \in 1..Len(clients') :
             (clients'[i].key = clients'[j].key
              /\ clients'[i].alive /\ clients'[j].alive) => i = j]_vars

\* the handlers that wait for the answer to a call on client c
InFlight(c) == {h \in Busy : hs[h].pc \in {"list", "call"} /\ hs[h].client = c}

\* C28: at most one handler at a time waits for the answer to a
\* ListTools or CallTool on a given client.
C28_OneCallInFlight ==
    \A c \in 1..Len(clients) : Cardinality(InFlight(c)) <= 1

--------------------------------------------------------------------------
(* The text of a failure *)

\* C29: a request whose client establishment failed in a step it ran
\* (install, upgrade, spawn or connect, handshake) ends with a text
\* result, not a raised error, that carries the cause and names the
\* provider (as the tool of the text or as the subject of the cause); a
\* request whose invocation failed ends with a text result that names
\* the provider, the command and the cause.
C29_FailureNamesProvider ==
    \A h \in Busy :
        LET s == hs[h]
        IN  /\ (s.got = "failed" /\ s.ran # <<>>) =>
                   /\ s.pc = "done"
                   /\ ~s.resp.err
                   /\ s.resp.kind = "clientFail"
                   /\ s.resp.cause # <<>>
                   /\ \/ s.resp.tool = s.tool
                      \/ s.resp.cause[2] = DescOf(providers, s.key).id
            /\ (s.pc = "done" /\ s.calls # <<>> /\ s.resp.kind # "result") =>
                   /\ ~s.resp.err
                   /\ s.resp.kind = "callFail"
                   /\ s.resp.tool = s.tool
                   /\ s.resp.command = s.command
                   /\ s.resp.cause # <<>>

--------------------------------------------------------------------------
(* Discovery without a manifest *)

\* mcp.json is absent or has no server
EmptyManifest ==
    manifest.state = "absent" \/ (manifest.state = "ok" /\ manifest.servers = <<>>)

\* the names of the extensions the extension manager reports, the
\* router's own left out, as the router names providers
ExtensionNames ==
    LET kept == FilterSeq(azdOut.exts, {SelfId})
    IN  [i \in 1..Len(kept) |->
            IF impl \in CsImpls THEN kept[i].id ELSE TrimPrefix(kept[i].id)]

\* C30: when mcp.json is absent or empty and the extension manager
\* answers, discovery does not fail and yields the extensions other than
\* the router's own, nothing more: start-up of the Go router succeeds
\* with that listing, and the catalog of the always-proxy Go router and
\* of the C# router, once discovered, has exactly those names.
C30_ManifestOptional ==
    (EmptyManifest /\ azdOut.ok /\ phase # "boot") =>
        /\ phase = "serving"
        /\ impl \in GoImpls => childTools = ExtensionNames
        /\ impl = "v2" => KeysOf(providers) = ExtensionNames
        /\ (impl \in CsImpls /\ initialized) => KeysOf(providers) = ExtensionNames

\* the always-proxy Go router has started without mcp.json, the extension
\* manager reporting the router itself and mcp.storage
C30_Witness ==
    /\ impl = "v2"
    /\ manifest.state = "absent"
    /\ azdOut.exts = <<SelfExt, NotInstalled>>
    /\ phase = "serving"
    /\ childTools = << <<"storage">> >>
    /\ KeysOf(providers) = << <<"storage">> >>

==========================================================================
